---- MODULE Spec2Model ----
(***************************************************************************)
(* Model of the MCP server for WooCommerce (src/src/server.py and          *)
(* src/src/woo_client.py): the lazily built shared API client, the tools,  *)
(* the resource and the prompts, each run step by step against a remote    *)
(* store whose calls may fail.                                             *)
(*                                                                         *)
(* Python text is a sequence of one-character strings; a Python value is   *)
(* a record [t, s, n] with t in "absent" (key not in the dict), "none",    *)
(* "str" (text s) or "int" (number n).                                     *)
(***************************************************************************)
EXTENDS Integers, Sequences, FiniteSets, TLC

\* ------------------------------------------------------------------ bounds
MaxUpdates == 3
MaxImages == 2
MaxProducts == 3
MaxMeta == 3

\* ------------------------------------------------------- text and values
Absent == [t |-> "absent", s |-> <<>>, n |-> 0]
NoneV == [t |-> "none", s |-> <<>>, n |-> 0]
Str(s) == [t |-> "str", s |-> s, n |-> 0]
IntV(n) == [t |-> "int", s |-> <<>>, n |-> n]

Whitespace == {" ", "\t", "\n"}
UpperChars == <<"A","B","C","D","E","F","G","H","I","J","K","L","M",
                "N","O","P","Q","R","S","T","U","V","W","X","Y","Z">>
LowerChars == <<"a","b","c","d","e","f","g","h","i","j","k","l","m",
                "n","o","p","q","r","s","t","u","v","w","x","y","z">>
DigitChars == <<"0","1","2","3","4","5","6","7","8","9">>

\* str.lower(), one character
LowerChar(c) ==
  IF \E k \in 1..26 : UpperChars[k] = c
  THEN LowerChars[CHOOSE k \in 1..26 : UpperChars[k] = c]
  ELSE c

\* str.lower()
Lower(s) == [k \in 1..Len(s) |-> LowerChar(s[k])]

RECURSIVE LStrip(_)
LStrip(s) ==
  IF s # <<>> /\ Head(s) \in Whitespace THEN LStrip(Tail(s)) ELSE s

RECURSIVE RStrip(_)
RStrip(s) ==
  IF s # <<>> /\ s[Len(s)] \in Whitespace
  THEN RStrip(SubSeq(s, 1, Len(s) - 1)) ELSE s

\* str.strip()
Strip(s) == RStrip(LStrip(s))

\* str.replace(' ', '-')
ReplaceSpace(s) == [k \in 1..Len(s) |-> IF s[k] = " " THEN "-" ELSE s[k]]

IsDigit(c) == \E k \in 1..10 : DigitChars[k] = c
DigitVal(c) == (CHOOSE k \in 1..10 : DigitChars[k] = c) - 1

RECURSIVE DigitsVal(_)
DigitsVal(s) ==
  IF s = <<>> THEN 0
  ELSE 10 * DigitsVal(SubSeq(s, 1, Len(s) - 1)) + DigitVal(s[Len(s)])

\* int(x): whitespace is stripped, one sign is allowed, then only digits
PyInt(v) ==
  IF v.t = "int" THEN [ok |-> TRUE, n |-> v.n, err |-> "none"]
  ELSE IF v.t = "str" THEN
    LET b == Strip(v.s)
        signed == b # <<>> /\ Head(b) \in {"+", "-"}
        d == IF signed THEN Tail(b) ELSE b
    IN  IF d # <<>> /\ \A k \in 1..Len(d) : IsDigit(d[k])
        THEN [ok |-> TRUE,
              n |-> IF signed /\ Head(b) = "-" THEN 0 - DigitsVal(d)
                    ELSE DigitsVal(d),
              err |-> "none"]
        ELSE [ok |-> FALSE, n |-> 0, err |-> "ValueError"]
  ELSE [ok |-> FALSE, n |-> 0, err |-> "TypeError"]

\* truth value of a Python value (bool(x))
Truthy(v) ==
  \/ v.t = "str" /\ v.s # <<>>
  \/ v.t = "int" /\ v.n # 0

\* dict.get(key, '') on a field
GetOrEmpty(v) == IF v.t = "absent" THEN Str(<<>>) ELSE v

EmptyDict == [k \in {} |-> k]

\* ------------------------------------------------------- configuration
RequiredKeys == {"store_url", "consumer_key", "consumer_secret", "api_version"}

\* the config.json files the server may find on disk
ConfigChoices ==
  {[exists |-> FALSE, keys |-> {}]} \cup
  {[exists |-> TRUE, keys |-> RequiredKeys]} \cup
  {[exists |-> TRUE, keys |-> RequiredKeys \ {k}] : k \in RequiredKeys}

\* a loader that opens the file and does not look for the required keys
LoadConfigErrorNoKeyCheck(cfg) ==
  IF ~cfg.exists THEN "FileNotFoundError" ELSE "none"

\* WooClient._load_config: the failure it raises, or "none"
LoadConfigError(cfg) ==
  IF ~cfg.exists THEN "FileNotFoundError"
  ELSE IF RequiredKeys \ cfg.keys # {} THEN "ValueError"
  ELSE "none"

\* WooClient.__init__
WooClientInit(cfg) ==
  LET e == LoadConfigError(cfg)
  IN  [ok |-> e = "none", err |-> e]

\* ------------------------------------------------------ remote store
\* what WooClient.update_product can do: return the updated product (a
\* product JSON normally carries its name), or raise
UpdateResponses ==
  { [ok |-> TRUE, name |-> Str(<<"M","u","g">>), err |-> "none"],
    [ok |-> TRUE, name |-> Absent, err |-> "none"],
    [ok |-> FALSE, name |-> Absent, err |-> "RemoteApiError"] }

\* ------------------------------------------------- bulk update requests
Request(pid, d, sd, mt, md) ==
  [product_id |-> pid, description |-> d, short_description |-> sd,
   meta_title |-> mt, meta_description |-> md]

PidSamples ==
  { Absent, NoneV, IntV(7), Str(<<"1","2">>), Str(<<" ","7","\n">>),
    Str(<<"a","b">>), Str(<<>>) }

FieldSamples == { Absent, Str(<<>>), Str(<<"x">>) }

AllRequests ==
  { Request(pid, d, sd, mt, md) :
      pid \in PidSamples, d \in FieldSamples \cup {NoneV},
      sd \in FieldSamples, mt \in FieldSamples, md \in FieldSamples }

CoreRequests ==
  { Request(IntV(7), Str(<<"d">>), Absent, Absent, Absent),
    Request(Str(<<"a","b">>), Str(<<"d">>), Absent, Absent, Absent),
    Request(Absent, Str(<<"d">>), Absent, Absent, Absent),
    Request(IntV(7), Absent, Absent, Absent, Absent),
    Request(Str(<<"1","2">>), Absent, Absent, Str(<<"T">>), Str(<<"D">>)),
    Request(IntV(9), Str(<<>>), Absent, Absent, Absent) }

RECURSIVE SeqsUpTo(_, _)
SeqsUpTo(S, n) ==
  IF n = 0 THEN {<<>>}
  ELSE LET shorter == SeqsUpTo(S, n - 1)
       IN  shorter \cup {Append(q, x) : q \in shorter, x \in S}

\* the lists a caller passes: any single request, or a list of core ones
UpdateLists ==
  {<<r>> : r \in AllRequests} \cup SeqsUpTo(CoreRequests, MaxUpdates)

\* one entry of a meta_data list
MetaEntry(k, v) == [key |-> k, value |-> v]

\* ------------------------------------------------------------ products
\* a product as the store's JSON gives it: `empty` is the dict {}; a list
\* field is [present, items]
ListField(items) == [present |-> TRUE, items |-> items]
NoList == [present |-> FALSE, items |-> <<>>]

Product(id, name, status, d, sd, meta, images) ==
  [empty |-> FALSE, id |-> id, name |-> name, status |-> status,
   description |-> d, short_description |-> sd, meta_data |-> meta,
   images |-> images]

EmptyProduct ==
  [empty |-> TRUE, id |-> 0, name |-> Absent, status |-> "none",
   description |-> Absent, short_description |-> Absent,
   meta_data |-> NoList, images |-> NoList]

\* no product fetched
NoProduct == EmptyProduct

ProductIds == {7}

Image(alt, name) == [alt |-> alt, name |-> name]

ProductNameSamples ==
  { Str(<<"R","e","d"," ","M","u","g">>),
    Str(<<"R","e","d"," ","M","u","g"," ","D","e","l","u","x","e">>),
    Str(<<"R","e","d"," ","M","u","g"," ","D","e","l","u","x","e"," ">>),
    Absent, Str(<<>>) }

AltSamples ==
  { Absent, Str(<<>>), Str(<<" "," ">>),
    Str(<<"R","e","d"," ","M","u","g">>),
    Str(<<"r","e","d"," ","m","u","g">>),
    Str(<<"R","E","D"," ","M","U","G"," ","D","E","L","U","X","E">>),
      Str(<<" ","r","e","d"," ","m","u","g"," ","d","e","l","u","x","e","\n">>),
      Str(<<"u","n","k","n","o","w","n"," ","p","r","o","d","u","c","t">>),
      Str(<<"A"," ","r","e","d"," ","c","e","r","a","m","i","c"," ","m","u","g">>) }

ImageNameSamples ==
  { Absent, Str(<<>>), Str(<<"i","m","g">>),
    Str(<<"I","M","G">>), Str(<<" ","P","h","o","t","o"," ">>),
    Str(<<"p","i","c","t","u","r","e">>),
      Str(<<"i","m","a","g","e">>),
      Str(<<"i","m","g","s">>),
      Str(<<"m","u","g","-","f","r","o","n","t">>) }

AllImages == { Image(a, n) : a \in AltSamples, n \in ImageNameSamples }

CoreImages ==
  { Image(Str(<<"R","E","D"," ","M","U","G"," ","D","E","L","U","X","E">>),
    Str(<<"i","m","g">>)),
    Image(Absent, Str(<<"m","u","g","-","f","r","o","n","t">>)),
    Image(Str(<<"r","e","d"," ","m","u","g">>), Str(<<>>)),
    Image(Str(<<"A"," ","r","e","d"," ","c","e","r","a","m","i","c"," ","m","u","g">>),
      Str(<<"m","u","g","-","f","r","o","n","t">>)) }

\* the image lists of a product: absent, any one image, or core images
ImageLists ==
  {NoList} \cup {ListField(<<im>>) : im \in AllImages}
  \cup {ListField(q) : q \in SeqsUpTo(CoreImages, MaxImages)}

AuditProducts ==
  { Product(7, n, "publish", Str(<<"d">>), Str(<<"s">>), NoList, im) :
      n \in ProductNameSamples, im \in ImageLists }

\* what WooClient.get_product_by_id can do for the audit
AuditResponses ==
  { [ok |-> FALSE, product |-> EmptyProduct, err |-> "RemoteApiError"],
    [ok |-> TRUE, product |-> EmptyProduct, err |-> "none"] }
  \cup { [ok |-> TRUE, product |-> p, err |-> "none"] : p \in AuditProducts }

\* ------------------------------------------------------ product batches
SeoTitleKey == "_yoast_wpseo_title"
SeoDescKey == "_yoast_wpseo_metadesc"

MetaSamples ==
  { MetaEntry(k, v) : k \in {SeoTitleKey, SeoDescKey},
                      v \in {Str(<<>>), Str(<<"T">>)} }

\* the meta_data of a product: absent, or up to MaxMeta entries
MetaLists ==
  {NoList} \cup {ListField(q) : q \in SeqsUpTo(MetaSamples, MaxMeta)}

\* n copies of the character c
Repeat(c, n) == [k \in 1..n |-> c]

DescriptionSamples ==
  { Absent, Str(<<>>), Str(<<" ","\n">>), Str(<<"d">>),
    Str(Repeat("x", 50)), Str(Repeat("x", 100)),
    Str(<<" ">> \o Repeat("x", 99) \o <<"\n">>) }
ShortDescriptionSamples == { Absent, Str(<<"s">>) }

AllProducts ==
  { Product(1, Str(<<"P">>), "publish", dd, sd, m, NoList) :
      dd \in DescriptionSamples, sd \in ShortDescriptionSamples,
      m \in MetaLists }

GoodMeta ==
  ListField(<<MetaEntry(SeoTitleKey, Str(<<"T">>)),
              MetaEntry(SeoDescKey, Str(<<"D">>))>>)

CoreProducts ==
  { Product(1, Str(<<"P">>), "publish", Str(<<"d">>), Str(<<"s">>),
            GoodMeta, NoList),
    Product(2, Str(<<"Q">>), "draft", Str(<<>>), Str(<<"s">>),
            NoList, NoList),
    Product(3, Str(<<"R">>), "pending", Str(<<"d">>), Absent,
            ListField(<<MetaEntry(SeoTitleKey, Str(<<>>)),
                        MetaEntry(SeoTitleKey, Str(<<"T">>)),
                        MetaEntry(SeoDescKey, Str(<<"D">>))>>), NoList),
    Product(4, Str(<<"S">>), "publish", Str(<<"d">>), Str(<<"s">>),
            ListField(<<MetaEntry(SeoTitleKey, Absent)>>), NoList) }

\* what the store returns for a product query: any one product, or up to
\* MaxProducts core products
ProductBatches ==
  {<<q>> : q \in AllProducts} \cup SeqsUpTo(CoreProducts, MaxProducts)

\* what WooClient.get_products can do
ProductsResponses ==
  { [ok |-> FALSE, products |-> <<>>, err |-> "RemoteApiError"] }
  \cup { [ok |-> TRUE, products |-> b, err |-> "none"] : b \in ProductBatches }

\* what WooClient.get_categories can do (only the number of categories
\* is used by store_stats)
CategoriesResponses ==
  { [ok |-> FALSE, count |-> 0, err |-> "RemoteApiError"],
    [ok |-> TRUE, count |-> 0, err |-> "none"],
    [ok |-> TRUE, count |-> 2, err |-> "none"] }

\* ------------------------------------------------------------- state
VARIABLES
  config,         \* the config.json on disk
  woo_client,     \* server.py _woo_client: "None" or the client handle
  built,          \* when WooClient() last succeeded: "none", "now" (in the
                  \* running operation) or "before" (in an earlier one)
  op,             \* the operation the dispatcher is running, or "none"
  pc,             \* position inside the operation
  args,           \* arguments of the running operation
  ret,            \* text returned to the dispatcher
  fault,          \* TRUE when an exception reached the dispatcher
  i,              \* loop index (1-based position in the list walked)
  results,        \* bulk_update_products: results
  errors,         \* bulk_update_products: errors
  calls,          \* calls made to client.update_product in this operation
  product,        \* audit_product_images: the product fetched
  issues,         \* audit_product_images: issues
  suggestions,    \* audit_product_images: suggestions
  good_practices, \* audit_product_images: good_practices
  products,       \* store_stats: products
  categories,     \* store_stats: len(categories)
  missing_description,        \* store_stats: missing_description
  missing_short_description,  \* store_stats: missing_short_description
  missing_seo,                \* store_stats: missing_seo
  published_products,         \* store_stats: published_products
  draft_products              \* store_stats: draft_products

vars == <<config, woo_client, built, op, pc, args, ret, fault, i, results, errors,
          calls, product, issues, suggestions, good_practices, products,
          categories, missing_description, missing_short_description,
          missing_seo, published_products, draft_products>>

bulkVars == <<results, errors, calls>>
auditVars == <<product, issues, suggestions, good_practices>>
statsVars == <<products, categories, missing_description,
               missing_short_description, missing_seo, published_products,
               draft_products>>

NoReturn == [kind |-> "none"]
NoArgs == [none |-> TRUE]

\* --------------------------------------------------- shared client handle
\* get_woo_client(): build the client on first use, reuse it afterwards
\* `constructed` tells that WooClient() ran and succeeded in this call.
GetWooClientAlwaysBuilds(wc, cfg) ==
  LET r == WooClientInit(cfg)
  IN  [ok |-> r.ok, client |-> IF r.ok THEN "WooClient" ELSE "None",
       err |-> r.err, constructed |-> r.ok]

GetWooClient(wc, cfg) ==
  IF wc = "None"
  THEN LET r == WooClientInit(cfg)
       IN  [ok |-> r.ok, client |-> IF r.ok THEN "WooClient" ELSE "None",
            err |-> r.err, constructed |-> r.ok]
  ELSE [ok |-> TRUE, client |-> wc, err |-> "none", constructed |-> FALSE]

\* the record of the construction after a call of get_woo_client
BuiltAfter(g) == IF g.constructed THEN "now" ELSE built

\* the outermost `except Exception as e: return f"Error ...: {e}"` that
\* every tool, resource and prompt has
OuterExceptPropagates(o, e) ==
  [ret |-> NoReturn, fault |-> TRUE]

OuterExcept(o, e) ==
  [ret |-> [kind |-> "error", op |-> o, msg |-> e], fault |-> FALSE]

\* leave the operation through its outer handler
Raise(o, e) ==
  /\ ret' = OuterExcept(o, e).ret
  /\ fault' = OuterExcept(o, e).fault
  /\ pc' = "returned"

\* ------------------------------------------------ bulk_update_products
\* the update_data dict built for one request: a field is copied when its
\* key is in the request; meta_data is added when it has an entry
BulkMetaData(update) ==
  (IF update.meta_title.t # "absent"
   THEN <<MetaEntry("_yoast_wpseo_title", update.meta_title)>> ELSE <<>>)
  \o
  (IF update.meta_description.t # "absent"
   THEN <<MetaEntry("_yoast_wpseo_metadesc", update.meta_description)>>
   ELSE <<>>)

\* variant: a field is copied only when its value is truthy
BulkUpdateDataTruthy(update) ==
  (IF Truthy(update.description)
   THEN "description" :> update.description ELSE EmptyDict)
  @@
  (IF Truthy(update.short_description)
   THEN "short_description" :> update.short_description ELSE EmptyDict)
  @@
  (IF BulkMetaData(update) # <<>>
   THEN "meta_data" :> BulkMetaData(update) ELSE EmptyDict)

BulkUpdateData(update) ==
  (IF update.description.t # "absent"
   THEN "description" :> update.description ELSE EmptyDict)
  @@
  (IF update.short_description.t # "absent"
   THEN "short_description" :> update.short_description ELSE EmptyDict)
  @@
  (IF BulkMetaData(update) # <<>>
   THEN "meta_data" :> BulkMetaData(update) ELSE EmptyDict)

\* variant: the inner handler lets the failure out of the loop
BulkInnerExceptEscapes(update, k, e) ==
  [results |-> <<>>, errors |-> <<>>, calls |-> <<>>, escaped |-> e]

\* variant: the inner handler swallows the failure without an entry
BulkInnerExceptSilent(update, k, e) ==
  [results |-> <<>>, errors |-> <<>>, calls |-> <<>>, escaped |-> "none"]

\* the inner `except Exception as e` of the loop: one error entry, go on
BulkInnerExcept(update, k, e) ==
  [results |-> <<>>,
   errors |-> <<[kind |-> "failed", req |-> k,
                 product_id |-> IF update.product_id.t = "absent"
                                THEN Str(<<"u","n","k","n","o","w","n">>)
                                ELSE update.product_id,
                 msg |-> e]>>,
   calls |-> <<>>, escaped |-> "none"]

\* variant: a failed update is sent a second time, and a request without
\* update fields is sent as well
BulkBodyRetries(update, k, resp) ==
  IF update.product_id.t = "absent"
  THEN [results |-> <<>>,
        errors |-> <<[kind |-> "missing_product_id", req |-> k,
                      product_id |-> Absent, msg |-> "none"]>>,
        calls |-> <<>>, escaped |-> "none"]
  ELSE
    LET parsed == PyInt(update.product_id)
        update_data == BulkUpdateData(update)
        call == [req |-> k, product_id |-> parsed.n, data |-> update_data,
                 resp |-> resp]
    IN  IF ~parsed.ok THEN BulkInnerExcept(update, k, parsed.err)
        ELSE IF ~resp.ok
        THEN [BulkInnerExcept(update, k, resp.err)
                EXCEPT !.calls = <<call, call>>]
        ELSE IF resp.name.t = "absent"
        THEN [BulkInnerExcept(update, k, "KeyError")
                EXCEPT !.calls = <<call>>]
        ELSE [results |-> <<[kind |-> "updated", req |-> k,
                             product_id |-> IntV(parsed.n),
                             msg |-> resp.name.s]>>,
              errors |-> <<>>, calls |-> <<call>>, escaped |-> "none"]

\* the body of `for update in updates` for the request at position k, given
\* what client.update_product does if it is called.  `req` in an entry is
\* the position of the request the entry is about.
BulkBody(update, k, resp) ==
  IF update.product_id.t = "absent"
  THEN [results |-> <<>>,
        errors |-> <<[kind |-> "missing_product_id", req |-> k,
                      product_id |-> Absent, msg |-> "none"]>>,
        calls |-> <<>>, escaped |-> "none"]
  ELSE
    LET parsed == PyInt(update.product_id)
        update_data == BulkUpdateData(update)
        call == [req |-> k, product_id |-> parsed.n, data |-> update_data,
                 resp |-> resp]
    IN  IF ~parsed.ok THEN BulkInnerExcept(update, k, parsed.err)
        ELSE IF DOMAIN update_data # {}
        THEN IF ~resp.ok
             THEN [BulkInnerExcept(update, k, resp.err)
                     EXCEPT !.calls = <<call>>]
             ELSE IF resp.name.t = "absent"
             THEN [BulkInnerExcept(update, k, "KeyError")
                     EXCEPT !.calls = <<call>>]
             ELSE [results |-> <<[kind |-> "updated", req |-> k,
                                  product_id |-> IntV(parsed.n),
                                  msg |-> resp.name.s]>>,
                   errors |-> <<>>, calls |-> <<call>>, escaped |-> "none"]
        ELSE [results |-> <<>>,
              errors |-> <<[kind |-> "no_update_data", req |-> k,
                            product_id |-> IntV(parsed.n), msg |-> "none"]>>,
              calls |-> <<>>, escaped |-> "none"]

\* the summary text: both counts, then the two lists
BulkSummary(res, errs) ==
  [kind |-> "summary", updated |-> Len(res), errors |-> Len(errs),
   successes |-> res, error_lines |-> errs]

\* after the loop (or when it has nothing left): build and return the text
BulkAdvance(next, res, errs) ==
  /\ i' = next
  /\ IF next > Len(args'.updates)
     THEN /\ ret' = BulkSummary(res, errs)
          /\ fault' = FALSE
          /\ pc' = "returned"
     ELSE /\ pc' = "bulk_loop"
          /\ UNCHANGED <<ret, fault>>

\* the dispatcher calls bulk_update_products(updates)
bulk_update_products(updates) ==
  /\ pc = "idle"
  /\ op' = "bulk_update_products"
  /\ args' = [updates |-> updates]
  /\ LET g == GetWooClient(woo_client, config)
     IN  /\ woo_client' = g.client
         /\ built' = BuiltAfter(g)
         /\ IF g.ok
            THEN BulkAdvance(1, <<>>, <<>>)
            ELSE Raise("bulk_update_products", g.err) /\ i' = i
  /\ UNCHANGED <<config, results, errors, calls, auditVars, statsVars>>

\* one pass of the loop body
bulk_update_step ==
  /\ pc = "bulk_loop"
  /\ op = "bulk_update_products"
  /\ \E resp \in UpdateResponses :
       LET b == BulkBody(args.updates[i], i, resp)
           res == results \o b.results
           errs == errors \o b.errors
       IN  /\ results' = res
           /\ errors' = errs
           /\ calls' = calls \o b.calls
           /\ UNCHANGED args
           /\ IF b.escaped # "none"
              THEN Raise("bulk_update_products", b.escaped) /\ i' = i
              ELSE BulkAdvance(i + 1, res, errs)
  /\ UNCHANGED <<config, woo_client, built, op, auditVars, statsVars>>

\* ------------------------------------------------ audit_product_images
AltMinLen == 10
GenericNames == { <<"i","m","a","g","e">>,
  <<"i","m","g">>, <<"p","h","o","t","o">>,
  <<"p","i","c","t","u","r","e">> }

\* product.get('name', 'Unknown Product')
AuditProductName(p) ==
  IF p.name.t = "absent" THEN <<"U","n","k","n","o","w","n"," ","P","r","o","d","u","c","t">>
  ELSE p.name.s

\* product.get('images', [])
AuditImages(p) == IF p.images.present THEN p.images.items ELSE <<>>

\* variant: the alt text is compared with the product name as written
AuditAltCheckCaseSensitive(product_name, alt_text, image_num) ==
  IF alt_text = <<>>
  THEN [issues |-> <<[kind |-> "missing_alt", image |-> image_num,
                      text |-> <<>>]>>,
        suggestions |-> <<[kind |-> "add_alt", image |-> image_num,
                           text |-> product_name]>>,
        good_practices |-> <<>>]
  ELSE IF Len(alt_text) < AltMinLen
  THEN [issues |-> <<[kind |-> "alt_too_short", image |-> image_num,
                      text |-> alt_text]>>,
        suggestions |-> <<[kind |-> "expand_alt", image |-> image_num,
                           text |-> <<>>]>>,
        good_practices |-> <<>>]
  ELSE IF alt_text = product_name
  THEN [issues |-> <<[kind |-> "alt_is_name", image |-> image_num,
                      text |-> <<>>]>>,
        suggestions |-> <<[kind |-> "describe_alt", image |-> image_num,
                           text |-> product_name]>>,
        good_practices |-> <<>>]
  ELSE [issues |-> <<>>, suggestions |-> <<>>,
        good_practices |-> <<[kind |-> "good_alt", image |-> image_num]>>]

\* the if/elif/elif/else on alt_text: one outcome per image
AuditAltCheck(product_name, alt_text, image_num) ==
  IF alt_text = <<>>
  THEN [issues |-> <<[kind |-> "missing_alt", image |-> image_num,
                      text |-> <<>>]>>,
        suggestions |-> <<[kind |-> "add_alt", image |-> image_num,
                           text |-> product_name]>>,
        good_practices |-> <<>>]
  ELSE IF Len(alt_text) < AltMinLen
  THEN [issues |-> <<[kind |-> "alt_too_short", image |-> image_num,
                      text |-> alt_text]>>,
        suggestions |-> <<[kind |-> "expand_alt", image |-> image_num,
                           text |-> <<>>]>>,
        good_practices |-> <<>>]
  ELSE IF Lower(alt_text) = Lower(product_name)
  THEN [issues |-> <<[kind |-> "alt_is_name", image |-> image_num,
                      text |-> <<>>]>>,
        suggestions |-> <<[kind |-> "describe_alt", image |-> image_num,
                           text |-> product_name]>>,
        good_practices |-> <<>>]
  ELSE [issues |-> <<>>, suggestions |-> <<>>,
        good_practices |-> <<[kind |-> "good_alt", image |-> image_num]>>]

\* variant: the generic names are matched as written
AuditNameCheckCaseSensitive(product_name, image_name, image_num) ==
  IF image_name = <<>> \/ image_name \in GenericNames
  THEN [issues |-> <<[kind |-> "generic_name", image |-> image_num,
                      text |-> <<>>]>>,
        suggestions |-> <<[kind |-> "use_filename", image |-> image_num,
                           text |-> ReplaceSpace(Lower(product_name))]>>]
  ELSE [issues |-> <<>>, suggestions |-> <<>>]

\* the check of the image name
AuditNameCheck(product_name, image_name, image_num) ==
  IF image_name = <<>> \/ Lower(image_name) \in GenericNames
  THEN [issues |-> <<[kind |-> "generic_name", image |-> image_num,
                      text |-> <<>>]>>,
        suggestions |-> <<[kind |-> "use_filename", image |-> image_num,
                           text |-> ReplaceSpace(Lower(product_name))]>>]
  ELSE [issues |-> <<>>, suggestions |-> <<>>]

\* the body of `for i, image in enumerate(images)`
AuditImage(product_name, image, image_num) ==
  LET alt_text == Strip(GetOrEmpty(image.alt).s)
      image_name == Strip(GetOrEmpty(image.name).s)
      a == AuditAltCheck(product_name, alt_text, image_num)
      n == AuditNameCheck(product_name, image_name, image_num)
  IN  [issues |-> a.issues \o n.issues,
       suggestions |-> a.suggestions \o n.suggestions,
       good_practices |-> a.good_practices]

\* the report built after the loop
AuditReport(product_name, images, iss, sugg, good) ==
  [kind |-> "audit_report", product_name |-> product_name,
   total_images |-> Len(images), total_issues |-> Len(iss),
   good_practices |-> Len(good),
   issues |-> iss, suggestions |-> sugg, good_list |-> good]

\* variant: an empty image list falls through to the summary report
AuditNoImagesFallsThrough(product_name, iss, sugg) ==
  AuditReport(product_name, <<>>, iss, sugg, <<>>)

\* the text returned at once when the product has no images: the critical
\* issue line, the templated suggestion and two fixed tips
AuditNoImages(product_name, iss, sugg) ==
  [kind |-> "no_images", product_name |-> product_name,
   critical |-> <<"No images found!">>,
   suggestions |-> <<sugg[1],
                     [kind |-> "tip_conversion", image |-> 0, text |-> <<>>],
                     [kind |-> "tip_shots", image |-> 0, text |-> <<>>]>>,
   summary |-> FALSE]

AuditAdvance(next, iss, sugg, good) ==
  /\ i' = next
  /\ IF next > Len(AuditImages(product'))
     THEN /\ ret' = AuditReport(AuditProductName(product'),
                                AuditImages(product'), iss, sugg, good)
          /\ fault' = FALSE
          /\ pc' = "returned"
     ELSE /\ pc' = "audit_loop"
          /\ UNCHANGED <<ret, fault>>

\* the dispatcher calls audit_product_images(product_id): the client, the
\* fetch, and the two early returns
audit_product_images(product_id) ==
  /\ pc = "idle"
  /\ op' = "audit_product_images"
  /\ args' = [product_id |-> product_id]
  /\ LET g == GetWooClient(woo_client, config)
     IN  /\ woo_client' = g.client
         /\ built' = BuiltAfter(g)
         /\ IF ~g.ok
            THEN /\ Raise("audit_product_images", g.err)
                 /\ UNCHANGED <<i, auditVars>>
            ELSE \E resp \in AuditResponses :
              IF ~resp.ok
              THEN /\ Raise("audit_product_images", resp.err)
                   /\ UNCHANGED <<i, auditVars>>
              ELSE IF resp.product.empty
              THEN /\ ret' = [kind |-> "not_found", product_id |-> product_id]
                   /\ fault' = FALSE
                   /\ pc' = "returned"
                   /\ UNCHANGED <<i, auditVars>>
              ELSE
                /\ product' = resp.product
                /\ good_practices' = <<>>
                /\ IF AuditImages(resp.product) = <<>>
                   THEN /\ issues' = <<[kind |-> "no_images", image |-> 0,
                                        text |-> <<>>]>>
                        /\ suggestions' =
                             <<[kind |-> "add_images", image |-> 0,
                                text |-> AuditProductName(resp.product)]>>
                        /\ ret' = AuditNoImages(AuditProductName(resp.product),
                                                issues', suggestions')
                        /\ fault' = FALSE
                        /\ pc' = "returned"
                        /\ i' = i
                   ELSE /\ issues' = <<>>
                        /\ suggestions' = <<>>
                        /\ AuditAdvance(1, <<>>, <<>>, <<>>)
  /\ UNCHANGED <<config, bulkVars, statsVars>>

\* one pass of the loop over the images
audit_image_step ==
  /\ pc = "audit_loop"
  /\ op = "audit_product_images"
  /\ LET a == AuditImage(AuditProductName(product),
                         AuditImages(product)[i], i)
         iss == issues \o a.issues
         sugg == suggestions \o a.suggestions
         good == good_practices \o a.good_practices
     IN  /\ issues' = iss
         /\ suggestions' = sugg
         /\ good_practices' = good
         /\ product' = product
         /\ AuditAdvance(i + 1, iss, sugg, good)
  /\ UNCHANGED <<config, woo_client, built, op, args, bulkVars, statsVars>>

\* ---------------------------------------------------------- store_stats
\* not product.get(field, '').strip()
MissingText(v) == Strip(GetOrEmpty(v).s) = <<>>

\* product.get('meta_data', [])
MetaItems(p) == IF p.meta_data.present THEN p.meta_data.items ELSE <<>>

\* variant: the last entry with the key is taken
SeoLookupLast(items, key) ==
  LET ks == {k \in 1..Len(items) : items[k].key = key}
  IN  IF ks = {} THEN [ok |-> TRUE, value |-> NoneV, err |-> "none"]
      ELSE LET f == CHOOSE k \in ks : \A m \in ks : m <= k
           IN  IF items[f].value.t = "absent"
               THEN [ok |-> FALSE, value |-> NoneV, err |-> "KeyError"]
               ELSE [ok |-> TRUE, value |-> items[f].value, err |-> "none"]

\* variant: an entry without 'value' reads as None (item.get('value'))
SeoLookupTolerant(items, key) ==
  LET ks == {k \in 1..Len(items) : items[k].key = key}
  IN  IF ks = {} THEN [ok |-> TRUE, value |-> NoneV, err |-> "none"]
      ELSE LET f == CHOOSE k \in ks : \A m \in ks : k <= m
           IN  IF items[f].value.t = "absent"
               THEN [ok |-> TRUE, value |-> NoneV, err |-> "none"]
               ELSE [ok |-> TRUE, value |-> items[f].value, err |-> "none"]

\* next((item['value'] for item in meta_data if item['key'] == key), None)
SeoLookup(items, key) ==
  LET ks == {k \in 1..Len(items) : items[k].key = key}
  IN  IF ks = {} THEN [ok |-> TRUE, value |-> NoneV, err |-> "none"]
      ELSE LET f == CHOOSE k \in ks : \A m \in ks : k <= m
           IN  IF items[f].value.t = "absent"
               THEN [ok |-> FALSE, value |-> NoneV, err |-> "KeyError"]
               ELSE [ok |-> TRUE, value |-> items[f].value, err |-> "none"]

\* the `if not seo_title or not seo_desc` of the loops, with the failure
\* the two lookups may raise
MissingSeo(p) ==
  LET seo_title == SeoLookup(MetaItems(p), SeoTitleKey)
      seo_desc == SeoLookup(MetaItems(p), SeoDescKey)
  IN  IF ~seo_title.ok THEN [ok |-> FALSE,
    missing |-> FALSE, err |-> seo_title.err]

      ELSE IF ~seo_desc.ok THEN [ok |-> FALSE,
        missing |-> FALSE, err |-> seo_desc.err]
      ELSE [ok |-> TRUE,
            missing |-> ~Truthy(seo_title.value) \/ ~Truthy(seo_desc.value),
            err |-> "none"]

\* any(item['key'] == key and item.get('value') for item in meta_data)
AnySeoValue(items, key) ==
  \E k \in 1..Len(items) : items[k].key = key /\ Truthy(items[k].value)

\* the set comprehension behind total_needing_optimization
NeedingOptimization(ps) ==
  Cardinality({k \in 1..Len(ps) :
     \/ MissingText(ps[k].description)
     \/ MissingText(ps[k].short_description)
     \/ ~AnySeoValue(MetaItems(ps[k]), SeoTitleKey)
     \/ ~AnySeoValue(MetaItems(ps[k]), SeoDescKey)})

\* num / den rounded to an integer, ties to even: what the '.1f' format
\* does to a score in tenths of a percent
RoundHalfEven(num, den) ==
  LET q == num \div den
      r == num % den
  IN  IF 2 * r < den THEN q
      ELSE IF 2 * r > den THEN q + 1
      ELSE IF q % 2 = 0 THEN q ELSE q + 1

\* variant: an empty store scores 0
StatsScoreZeroWhenEmpty(total, needing) ==
  IF total > 0 THEN RoundHalfEven((total - needing) * 1000, total) ELSE 0

\* optimization_percentage as printed, in tenths of a percent
StatsScore(total, needing) ==
  IF total > 0 THEN RoundHalfEven((total - needing) * 1000, total) ELSE 1000

\* the lines added under 'Priority Actions'
StatsPriorityActions(needing, mseo, mdesc) ==
  (IF needing > 0 THEN <<"need_optimization">> ELSE <<>>)
  \o (IF mseo > 0 THEN <<"missing_seo">> ELSE <<>>)
  \o (IF mdesc > 0 THEN <<"need_descriptions">> ELSE <<>>)
  \o (IF needing = 0 THEN <<"all_optimized">> ELSE <<>>)

\* the text built after the loop
StatsContent(ps, cats, pub, drafts, mdesc, mshort, mseo) ==
  LET needing == NeedingOptimization(ps)
  IN  [kind |-> "store_stats",
       total_products |-> Len(ps), published |-> pub, drafts |-> drafts,
       needing_work |-> needing, missing_descriptions |-> mdesc,
       missing_short_descriptions |-> mshort, missing_seo |-> mseo,
       categories |-> cats,
       priority_actions |-> StatsPriorityActions(needing, mseo, mdesc),
       score |-> StatsScore(Len(ps), needing)]

StatsAdvance(next, pub, drafts, mdesc, mshort, mseo) ==
  /\ i' = next
  /\ published_products' = pub
  /\ draft_products' = drafts
  /\ missing_description' = mdesc
  /\ missing_short_description' = mshort
  /\ missing_seo' = mseo
  /\ IF next > Len(products')
     THEN /\ ret' = StatsContent(products', categories', pub, drafts,
                                 mdesc, mshort, mseo)
          /\ fault' = FALSE
          /\ pc' = "returned"
     ELSE /\ pc' = "stats_loop"
          /\ UNCHANGED <<ret, fault>>

\* the dispatcher reads woo://store/stats: the client and the two fetches
store_stats ==
  /\ pc = "idle"
  /\ op' = "store_stats"
  /\ args' = NoArgs
  /\ LET g == GetWooClient(woo_client, config)
     IN  /\ woo_client' = g.client
         /\ built' = BuiltAfter(g)
         /\ IF ~g.ok
            THEN /\ Raise("store_stats", g.err)
                 /\ UNCHANGED <<i, statsVars>>
            ELSE \E pr \in ProductsResponses, cr \in CategoriesResponses :
              IF ~pr.ok
              THEN /\ Raise("store_stats", pr.err)
                   /\ UNCHANGED <<i, statsVars>>
              ELSE IF ~cr.ok
              THEN /\ Raise("store_stats", cr.err)
                   /\ UNCHANGED <<i, statsVars>>
              ELSE /\ products' = pr.products
                   /\ categories' = cr.count
                   /\ StatsAdvance(1, 0, 0, 0, 0, 0)
  /\ UNCHANGED <<config, bulkVars, auditVars>>

\* one pass of the loop over the products
store_stats_step ==
  /\ pc = "stats_loop"
  /\ op = "store_stats"
  /\ LET p == products[i]
         seo == MissingSeo(p)
     IN  /\ UNCHANGED <<products, categories>>
         /\ IF ~seo.ok
            THEN /\ Raise("store_stats", seo.err)
                 /\ published_products' =
                      published_products + IF p.status = "publish" THEN 1 ELSE 0
                 /\ draft_products' =
                      draft_products + IF p.status = "draft" THEN 1 ELSE 0
                 /\ missing_description' =
                      missing_description
                        + IF MissingText(p.description) THEN 1 ELSE 0
                 /\ missing_short_description' =
                      missing_short_description
                        + IF MissingText(p.short_description) THEN 1 ELSE 0
                 /\ UNCHANGED <<i, missing_seo>>
            ELSE StatsAdvance(
                   i + 1,
                   published_products + IF p.status = "publish" THEN 1 ELSE 0,
                   draft_products + IF p.status = "draft" THEN 1 ELSE 0,
                   missing_description
                     + IF MissingText(p.description) THEN 1 ELSE 0,
                   missing_short_description
                     + IF MissingText(p.short_description) THEN 1 ELSE 0,
                   missing_seo + IF seo.missing THEN 1 ELSE 0)
  /\ UNCHANGED <<config, woo_client, built, op, args, bulkVars, auditVars>>

\* ------------------------------------------- the single-action operations
\* an operation that ends in one step leaves through its return or through
\* its outer handler
Finish(o, r) ==
  IF r.ok
  THEN /\ ret' = r.text
       /\ fault' = FALSE
       /\ pc' = "returned"
  ELSE Raise(o, r.err)

Returns(text) == [ok |-> TRUE, text |-> text, err |-> "none"]
Raises(e) == [ok |-> FALSE, text |-> NoReturn, err |-> e]

Ids(ps) == [k \in 1..Len(ps) |-> ps[k].id]

\* the first 10 of a listing and the '... and N more' count
ListingLimit == 10
Listing(ids) ==
  [shown |-> SubSeq(ids, 1, IF Len(ids) > ListingLimit THEN ListingLimit
                            ELSE Len(ids)),
   more |-> IF Len(ids) > ListingLimit THEN Len(ids) - ListingLimit ELSE 0]

\* some SEO lookup of the batch raises
SeoLookupRaises(ps) == \E k \in 1..Len(ps) : ~MissingSeo(ps[k]).ok

\* ---- get_products
GetProductsArgs ==
  { [status |-> NoneV, category |-> NoneV, per_page |-> 10],
    [status |-> Str(<<"d","r","a","f","t">>), category |-> IntV(5),
     per_page |-> 150] }

\* the text of get_products after the fetch; product.get('description')
\* has no default, so .strip() raises on a product without the field
GetProductsText(ps) ==
  IF ps = <<>> THEN Returns([kind |-> "no_products"])
  ELSE IF \E k \in 1..Len(ps) :
            \/ ps[k].description.t \in {"absent", "none"}
            \/ ps[k].short_description.t \in {"absent", "none"}
  THEN Raises("AttributeError")
  ELSE Returns(
    [kind |-> "products", found |-> Len(ps),
     items |-> [k \in 1..Len(ps) |->
        [id |-> ps[k].id,
         missing_content |->
           (IF Strip(ps[k].description.s) = <<>>
            THEN <<"description">> ELSE <<>>)
           \o (IF Strip(ps[k].short_description.s) = <<>>
               THEN <<"short description">> ELSE <<>>)]]])

get_products(a) ==
  /\ pc = "idle"
  /\ op' = "get_products"
  /\ args' = a
  /\ LET g == GetWooClient(woo_client, config)
     IN  /\ woo_client' = g.client
         /\ built' = BuiltAfter(g)
         /\ IF ~g.ok
            THEN Raise("get_products", g.err) /\ UNCHANGED products
            ELSE \E pr \in ProductsResponses :
              IF ~pr.ok
              THEN Raise("get_products", pr.err) /\ UNCHANGED products
              ELSE /\ products' = pr.products
                   /\ Finish("get_products", GetProductsText(pr.products))
  /\ UNCHANGED <<config, i, bulkVars, auditVars, categories,
                 missing_description, missing_short_description,
                 missing_seo, published_products, draft_products>>

\* ---- get_product_by_id
DetailResponses ==
  { [ok |-> FALSE, product |-> EmptyProduct, err |-> "RemoteApiError"],
    [ok |-> TRUE, product |-> EmptyProduct, err |-> "none"] }
  \cup { [ok |-> TRUE, product |-> q, err |-> "none"] : q \in CoreProducts }

\* f"{value or 'Not set'}"
OrNotSet(v) == IF Truthy(v) THEN v ELSE Str(<<"N","o","t"," ","s","e","t">>)

\* the text of get_product_by_id after the fetch; product['id'] raises on
\* an empty product
ProductDetailsText(q) ==
  IF q.empty THEN Raises("KeyError")
  ELSE
    LET seo_title == SeoLookup(MetaItems(q), SeoTitleKey)
        seo_desc == SeoLookup(MetaItems(q), SeoDescKey)
    IN  IF ~seo_title.ok THEN Raises(seo_title.err)
        ELSE IF ~seo_desc.ok THEN Raises(seo_desc.err)
        ELSE Returns(
          [kind |-> "product_details", id |-> q.id, name |-> q.name,
           status |-> q.status,
           description |-> q.description,
           short_description |-> q.short_description,
           seo_title |-> OrNotSet(seo_title.value),
           seo_desc |-> OrNotSet(seo_desc.value)])

get_product_by_id(product_id) ==
  /\ pc = "idle"
  /\ op' = "get_product_by_id"
  /\ args' = [product_id |-> product_id]
  /\ LET g == GetWooClient(woo_client, config)
     IN  /\ woo_client' = g.client
         /\ built' = BuiltAfter(g)
         /\ IF ~g.ok
            THEN Raise("get_product_by_id", g.err) /\ UNCHANGED product
            ELSE \E resp \in DetailResponses :
              IF ~resp.ok
              THEN Raise("get_product_by_id", resp.err) /\ UNCHANGED product
              ELSE /\ product' = resp.product
                   /\ Finish("get_product_by_id",
                             ProductDetailsText(resp.product))
  /\ UNCHANGED <<config, i, bulkVars, issues, suggestions, good_practices,
                 statsVars>>

\* ---- update_product
UpdateValueSamples == { NoneV, Str(<<>>), Str(<<"x">>) }

UpdateProductArgs ==
  { [product_id |-> 7, description |-> dd, short_description |-> sd,
     meta_title |-> mt, meta_description |-> md] :
      dd \in UpdateValueSamples, sd \in UpdateValueSamples,
      mt \in UpdateValueSamples, md \in UpdateValueSamples }

UpdateProductMetaData(a) ==
  (IF Truthy(a.meta_title)
   THEN <<MetaEntry(SeoTitleKey, a.meta_title)>> ELSE <<>>)
  \o
  (IF Truthy(a.meta_description)
   THEN <<MetaEntry(SeoDescKey, a.meta_description)>> ELSE <<>>)

\* update_data of update_product: a field is sent when its value is truthy
UpdateProductData(a) ==
  (IF Truthy(a.description)
   THEN "description" :> a.description ELSE EmptyDict)
  @@
  (IF Truthy(a.short_description)
   THEN "short_description" :> a.short_description ELSE EmptyDict)
  @@
  (IF UpdateProductMetaData(a) # <<>>
   THEN "meta_data" :> UpdateProductMetaData(a) ELSE EmptyDict)

\* the text of update_product after the call to the collaborator
UpdateProductText(a, resp) ==
  IF ~resp.ok THEN Raises(resp.err)
  ELSE IF resp.name.t = "absent" THEN Raises("KeyError")
  ELSE Returns(
    [kind |-> "updated", product_id |-> a.product_id,
     updated |->
       (IF Truthy(a.description) THEN <<"description">> ELSE <<>>)
       \o (IF Truthy(a.short_description)
           THEN <<"short_description">> ELSE <<>>)
       \o (IF Truthy(a.meta_title) THEN <<"meta_title">> ELSE <<>>)
       \o (IF Truthy(a.meta_description)
           THEN <<"meta_description">> ELSE <<>>),
     name |-> resp.name.s])

update_product(a) ==
  /\ pc = "idle"
  /\ op' = "update_product"
  /\ args' = a
  /\ LET g == GetWooClient(woo_client, config)
         update_data == UpdateProductData(a)
     IN  /\ woo_client' = g.client
         /\ built' = BuiltAfter(g)
         /\ IF ~g.ok
            THEN Raise("update_product", g.err) /\ UNCHANGED calls
            ELSE IF DOMAIN update_data = {}
            THEN /\ Finish("update_product",
                           Returns([kind |-> "no_update_data"]))
                 /\ UNCHANGED calls
            ELSE \E resp \in UpdateResponses :
              /\ calls' = <<[req |-> 1, product_id |-> a.product_id,
                             data |-> update_data, resp |-> resp]>>
              /\ Finish("update_product", UpdateProductText(a, resp))
  /\ UNCHANGED <<config, i, results, errors, auditVars, statsVars>>

\* ---- analyze_products
\* the text of analyze_products after the fetch
AnalyzeProductsText(ps) ==
  IF ps = <<>> THEN Returns([kind |-> "no_products_to_analyze"])
  ELSE IF SeoLookupRaises(ps) THEN Raises("KeyError")
  ELSE
    LET md == Ids(SelectSeq(ps, LAMBDA q : MissingText(q.description)))
        msd == Ids(SelectSeq(ps, LAMBDA q : MissingText(q.short_description)))
        ms == Ids(SelectSeq(ps, LAMBDA q : MissingSeo(q).missing))
    IN  Returns(
          [kind |-> "analysis", analyzed |-> Len(ps),
           missing_description |-> Len(md),
           missing_description_list |-> Listing(md),
           missing_short_description |-> Len(msd),
           missing_short_description_list |-> Listing(msd),
           missing_seo |-> Len(ms),
           missing_seo_list |-> Listing(ms)])

analyze_products(per_page) ==
  /\ pc = "idle"
  /\ op' = "analyze_products"
  /\ args' = [per_page |-> per_page]
  /\ LET g == GetWooClient(woo_client, config)
     IN  /\ woo_client' = g.client
         /\ built' = BuiltAfter(g)
         /\ IF ~g.ok
            THEN Raise("analyze_products", g.err) /\ UNCHANGED products
            ELSE \E pr \in ProductsResponses :
              IF ~pr.ok
              THEN Raise("analyze_products", pr.err) /\ UNCHANGED products
              ELSE /\ products' = pr.products
                   /\ Finish("analyze_products",
                             AnalyzeProductsText(pr.products))
  /\ UNCHANGED <<config, i, bulkVars, auditVars, categories,
                 missing_description, missing_short_description,
                 missing_seo, published_products, draft_products>>

\* ---- analyze_store
LowQualityLimit == 100

\* variant: the length is taken before trimming, and 100 counts as short
ShortTextUntrimmed(v) == Len(GetOrEmpty(v).s) <= LowQualityLimit

\* len(description) < 100, on the trimmed description
ShortText(v) == Len(Strip(GetOrEmpty(v).s)) < LowQualityLimit

\* the prompt of analyze_store after the two fetches
AnalyzeStoreText(ps, cats, include_products) ==
  IF SeoLookupRaises(ps) THEN Raises("KeyError")
  ELSE
    LET md == Ids(SelectSeq(ps, LAMBDA q : MissingText(q.description)))
        lq == Ids(SelectSeq(ps, LAMBDA q :
                 ~MissingText(q.description) /\ ShortText(q.description)))
        msd == Ids(SelectSeq(ps, LAMBDA q : MissingText(q.short_description)))
        ms == Ids(SelectSeq(ps, LAMBDA q : MissingSeo(q).missing))
    IN  Returns(
          [kind |-> "store_prompt", total_products |-> Len(ps),
           published |-> Len(SelectSeq(ps, LAMBDA q : q.status = "publish")),
           drafts |-> Len(SelectSeq(ps, LAMBDA q : q.status = "draft")),
           categories |-> cats,
           missing_description |-> md,
           missing_short_description |-> msd,
           missing_seo |-> ms,
           low_quality_content |-> lq,
           listed_missing_description |->
             IF include_products /\ md # <<>> THEN Listing(md)
             ELSE Listing(<<>>),
           listed_missing_seo |->
             IF include_products /\ ms # <<>> THEN Listing(ms)
             ELSE Listing(<<>>),
           category_heading |-> include_products /\ ms # <<>>])

analyze_store(include_products, max_products) ==
  /\ pc = "idle"
  /\ op' = "analyze_store"
  /\ args' = [include_products |-> include_products,
              max_products |-> max_products]
  /\ LET g == GetWooClient(woo_client, config)
     IN  /\ woo_client' = g.client
         /\ built' = BuiltAfter(g)
         /\ IF ~g.ok
            THEN /\ Raise("analyze_store", g.err)
                 /\ UNCHANGED <<products, categories>>
            ELSE \E pr \in ProductsResponses, cr \in CategoriesResponses :
              IF ~pr.ok
              THEN /\ Raise("analyze_store", pr.err)
                   /\ UNCHANGED <<products, categories>>
              ELSE IF ~cr.ok
              THEN /\ Raise("analyze_store", cr.err)
                   /\ UNCHANGED <<products, categories>>
              ELSE /\ products' = pr.products
                   /\ categories' = cr.count
                   /\ Finish("analyze_store",
                             AnalyzeStoreText(pr.products, cr.count,
                                              include_products))
  /\ UNCHANGED <<config, i, bulkVars, auditVars,
                 missing_description, missing_short_description,
                 missing_seo, published_products, draft_products>>

\* ---- bulk_generate_seo
\* the prompt of bulk_generate_seo after the fetch
BulkGenerateSeoText(ps) ==
  IF SeoLookupRaises(ps) THEN Raises("KeyError")
  ELSE
    LET needing == SelectSeq(ps, LAMBDA q : MissingSeo(q).missing)
    IN  IF needing = <<>> THEN Returns([kind |-> "all_have_seo"])
        ELSE Returns(
          [kind |-> "seo_prompt", count |-> Len(needing),
           products |-> [k \in 1..Len(needing) |->
              [id |-> needing[k].id,
               missing_seo_title |->
                 ~Truthy(SeoLookup(MetaItems(needing[k]), SeoTitleKey).value),
               missing_seo_desc |->
                 ~Truthy(SeoLookup(MetaItems(needing[k]), SeoDescKey).value)]]])

bulk_generate_seo(category_id, limit) ==
  /\ pc = "idle"
  /\ op' = "bulk_generate_seo"
  /\ args' = [category_id |-> category_id, limit |-> limit]
  /\ LET g == GetWooClient(woo_client, config)
     IN  /\ woo_client' = g.client
         /\ built' = BuiltAfter(g)
         /\ IF ~g.ok
            THEN Raise("bulk_generate_seo", g.err) /\ UNCHANGED products
            ELSE \E pr \in ProductsResponses :
              IF ~pr.ok
              THEN Raise("bulk_generate_seo", pr.err) /\ UNCHANGED products
              ELSE /\ products' = pr.products
                   /\ Finish("bulk_generate_seo",
                             BulkGenerateSeoText(pr.products))
  /\ UNCHANGED <<config, i, bulkVars, auditVars, categories,
                 missing_description, missing_short_description,
                 missing_seo, published_products, draft_products>>

\* ------------------------------------------------------------ dispatcher
\* the dispatcher takes the returned text; the operation's locals are gone
Return ==
  /\ pc = "returned"
  /\ pc' = "idle"
  /\ op' = "none"
  /\ args' = NoArgs
  /\ ret' = NoReturn
  /\ fault' = FALSE
  /\ i' = 0
  /\ results' = <<>>
  /\ errors' = <<>>
  /\ calls' = <<>>
  /\ product' = NoProduct
  /\ issues' = <<>>
  /\ suggestions' = <<>>
  /\ good_practices' = <<>>
  /\ products' = <<>>
  /\ categories' = 0
  /\ missing_description' = 0
  /\ missing_short_description' = 0
  /\ missing_seo' = 0
  /\ published_products' = 0
  /\ draft_products' = 0
  /\ built' = IF built = "now" THEN "before" ELSE built
  /\ UNCHANGED <<config, woo_client>>

\* the server starts: main() runs the dispatcher; config.json is not read
main ==
  /\ pc = "start"
  /\ pc' = "idle"
  /\ UNCHANGED <<config, woo_client, built, op, args, ret, fault, i, bulkVars,
                 auditVars, statsVars>>

\* config.json is edited on disk; it is only read while no client exists
EditConfig ==
  /\ pc = "idle"
  /\ woo_client = "None"
  /\ \E c \in ConfigChoices : c # config /\ config' = c
  /\ UNCHANGED <<woo_client, built, op, pc, args, ret, fault, i, bulkVars, auditVars,
                 statsVars>>

Init ==
  /\ config \in ConfigChoices
  /\ woo_client = "None"
  /\ built = "none"
  /\ op = "none"
  /\ pc = "start"
  /\ args = NoArgs
  /\ ret = NoReturn
  /\ fault = FALSE
  /\ i = 0
  /\ results = <<>>
  /\ errors = <<>>
  /\ calls = <<>>
  /\ product = NoProduct
  /\ issues = <<>>
  /\ suggestions = <<>>
  /\ good_practices = <<>>
  /\ products = <<>>
  /\ categories = 0
  /\ missing_description = 0
  /\ missing_short_description = 0
  /\ missing_seo = 0
  /\ published_products = 0
  /\ draft_products = 0

Next ==
  \/ main
  \/ \E u \in UpdateLists : bulk_update_products(u)
  \/ bulk_update_step
  \/ \E id \in ProductIds : audit_product_images(id)
  \/ audit_image_step
  \/ store_stats
  \/ store_stats_step
  \/ \E a \in GetProductsArgs : get_products(a)
  \/ \E id \in ProductIds : get_product_by_id(id)
  \/ \E a \in UpdateProductArgs : update_product(a)
  \/ analyze_products(50)
  \/ \E b \in BOOLEAN : analyze_store(b, 50)
  \/ \E c \in {NoneV, IntV(5)} : bulk_generate_seo(c, 20)
  \/ Return
  \/ EditConfig

Spec == Init /\ [][Next]_vars

\* =============================================================== claims
\* ----------------------------------------------- bulk_update_products
InBulk == op = "bulk_update_products"
BulkReturned == InBulk /\ pc = "returned"
BulkSummarised == BulkReturned /\ ret.kind = "summary"

\* requests the loop has finished with
BulkProcessed ==
  IF InBulk /\ pc = "bulk_loop" THEN i - 1
  ELSE IF BulkSummarised THEN Len(args.updates)
  ELSE 0

\* stated on the request alone
HasUpdateField(u) ==
  \/ u.description.t # "absent"
  \/ u.short_description.t # "absent"
  \/ u.meta_title.t # "absent"
  \/ u.meta_description.t # "absent"

IdParses(u) == u.product_id.t # "absent" /\ PyInt(u.product_id).ok

Sendable(u) == IdParses(u) /\ HasUpdateField(u)

CallsFor(k) == {c \in 1..Len(calls) : calls[c].req = k}
ResultsFor(k) == {c \in 1..Len(results) : results[c].req = k}
ErrorsFor(k) == {c \in 1..Len(errors) : errors[c].req = k}

\* request k failed: it was not valid, or the collaborator call made for
\* it raised, or its answer could not be used
RequestFailed(k) ==
  \/ ~Sendable(args.updates[k])
  \/ \E c \in CallsFor(k) :
       ~calls[c].resp.ok \/ calls[c].resp.name.t = "absent"

\* C1: once bulk_update_products has its client, a failure while
\* processing request k (validation or collaborator) never stops the
\* batch: the operation returns the summary, and every request after k
\* has been processed and, when valid, sent to the update collaborator.
C1_FailureDoesNotStopBatch ==
  (BulkReturned /\ woo_client # "None") =>
    \A k \in 1..Len(args.updates) :
      RequestFailed(k) =>
        /\ ret.kind = "summary"
        /\ ret.updated = Len(results) /\ ret.errors = Len(errors)
        /\ \A j \in (k + 1)..Len(args.updates) :
             /\ ResultsFor(j) \cup ErrorsFor(j) # {}
             /\ Sendable(args.updates[j]) => CallsFor(j) # {}

\* a batch of three: the collaborator fails on #1, #2 has a bad id, #3 is
\* still sent and succeeds
C1_Witness ==
  /\ BulkSummarised
  /\ Len(args.updates) = 3
  /\ \E c \in CallsFor(1) : ~calls[c].resp.ok
  /\ ~IdParses(args.updates[2])
  /\ CallsFor(3) # {} /\ ResultsFor(3) # {}

\* C2: client.update_product is called exactly once for each processed
\* request whose product_id is present and parses as an integer and which
\* has an update field, and never for any other request; each other
\* request adds exactly one error entry, which for a request with a good
\* id and no update field is 'No update data for product ID X'.
C2_OneCallPerValidRequest ==
  InBulk =>
    \A k \in 1..BulkProcessed :
      LET u == args.updates[k]
      IN  /\ Cardinality(CallsFor(k)) = IF Sendable(u) THEN 1 ELSE 0
          /\ \A c \in CallsFor(k) :
               calls[c].product_id = PyInt(u.product_id).n
          /\ ~Sendable(u) =>
               /\ Cardinality(ErrorsFor(k)) = 1
               /\ ResultsFor(k) = {}
          /\ (IdParses(u) /\ ~HasUpdateField(u)) =>
               \A c \in ErrorsFor(k) :
                 /\ errors[c].kind = "no_update_data"
                 /\ errors[c].product_id = IntV(PyInt(u.product_id).n)

\* a batch with a valid request whose call failed (no second call), a
\* request with only a product_id, and one with an unparseable id
C2_Witness ==
  /\ BulkSummarised
  /\ \E k \in 1..Len(args.updates) :
       /\ Sendable(args.updates[k])
       /\ \E c \in CallsFor(k) : ~calls[c].resp.ok
  /\ \E k \in 1..Len(args.updates) :
       IdParses(args.updates[k]) /\ ~HasUpdateField(args.updates[k])
  /\ \E k \in 1..Len(args.updates) :
       args.updates[k].product_id.t = "str" /\ ~IdParses(args.updates[k])

Increasing(reqs) ==
  \A a, b \in 1..Len(reqs) : a < b => reqs[a].req < reqs[b].req

\* C3: every processed request has exactly one entry, in exactly one of
\* results and errors, so the two counts of the summary add up to the
\* number of requests; each list keeps the order of the requests.
C3_OneEntryPerRequestInOrder ==
  InBulk =>
    /\ \A k \in 1..BulkProcessed :
         Cardinality(ResultsFor(k)) + Cardinality(ErrorsFor(k)) = 1
    /\ Len(results) + Len(errors) = BulkProcessed
    /\ Increasing(results) /\ Increasing(errors)
    /\ BulkSummarised =>
         /\ ret.updated + ret.errors = Len(args.updates)
         /\ ret.successes = results /\ ret.error_lines = errors

\* the example of the claim: #1 and #3 valid and updated, #2 has a
\* non-integer product_id
C3_Witness ==
  /\ BulkSummarised
  /\ Len(args.updates) = 3
  /\ args.updates[2].product_id.t = "str" /\ ~IdParses(args.updates[2])
  /\ Len(results) = 2 /\ results[1].req = 1 /\ results[2].req = 3
  /\ Len(errors) = 1 /\ errors[1].req = 2 /\ errors[1].kind = "failed"

\* the meta entries a request asks for, case by case
ExpectedMeta(u) ==
  IF u.meta_title.t # "absent" /\ u.meta_description.t # "absent"
  THEN << [key |-> "_yoast_wpseo_title", value |-> u.meta_title],
          [key |-> "_yoast_wpseo_metadesc", value |-> u.meta_description] >>
  ELSE IF u.meta_title.t # "absent"
  THEN << [key |-> "_yoast_wpseo_title", value |-> u.meta_title] >>
  ELSE IF u.meta_description.t # "absent"
  THEN << [key |-> "_yoast_wpseo_metadesc", value |-> u.meta_description] >>
  ELSE << >>

\* C4: the payload of every update call has 'description' /
\* 'short_description' exactly when the request has that key, with the
\* request's value; it has 'meta_data' exactly when the request has
\* meta_title or meta_description, holding the title entry then the
\* description entry, each only if supplied; it has no other key.
C4_PayloadMirrorsRequest ==
  InBulk =>
    \A c \in 1..Len(calls) :
      LET u == args.updates[calls[c].req]
          data == calls[c].data
      IN  /\ DOMAIN data \subseteq
               {"description", "short_description", "meta_data"}
          /\ "description" \in DOMAIN data <=> u.description.t # "absent"
          /\ "description" \in DOMAIN data =>
               data["description"] = u.description
          /\ "short_description" \in DOMAIN data <=>
               u.short_description.t # "absent"
          /\ "short_description" \in DOMAIN data =>
               data["short_description"] = u.short_description
          /\ "meta_data" \in DOMAIN data <=> ExpectedMeta(u) # <<>>
          /\ "meta_data" \in DOMAIN data =>
               data["meta_data"] = ExpectedMeta(u)

\* a call for a request with an empty-text description and both meta fields
C4_Witness ==
  /\ InBulk
  /\ \E c \in 1..Len(calls) :
       LET u == args.updates[calls[c].req]
       IN  /\ u.description = Str(<<>>)
           /\ u.short_description.t = "absent"
           /\ u.meta_title.t = "str" /\ u.meta_description.t = "str"
           /\ DOMAIN calls[c].data = {"description", "meta_data"}
           /\ Len(calls[c].data["meta_data"]) = 2

\* ------------------------------------------------------ every operation
Operations ==
  { "get_products", "get_product_by_id", "update_product",
    "analyze_products", "bulk_update_products", "audit_product_images",
    "store_stats", "analyze_store", "bulk_generate_seo" }

\* C5: no operation lets a failure through to the dispatcher: whatever
\* fails (building the client, a fetch, an update, the formatting of what
\* came back), the operation ends by returning a text, and when the client
\* could not be built or the collaborator of update_product raised, that
\* text is the error description with the failure in it.
C5_FailuresBecomeText ==
  /\ fault = FALSE
  /\ pc = "returned" =>
       /\ op \in Operations
       /\ ret.kind # "none"
       /\ ret.kind = "error" => (ret.op = op /\ ret.msg # "none")
       /\ woo_client = "None" =>
            /\ ret.kind = "error"
            /\ ret.msg = LoadConfigError(config)
       /\ (op = "update_product" /\ calls # <<>> /\ ~calls[1].resp.ok) =>
            /\ ret.kind = "error"
            /\ ret.msg = calls[1].resp.err

\* analyze_store with a client, ended by a failed fetch
C5_Witness ==
  /\ pc = "returned"
  /\ op = "analyze_store"
  /\ woo_client # "None"
  /\ ret.kind = "error"
  /\ ret.msg = "RemoteApiError"
  /\ fault = FALSE

\* ------------------------------------------------ audit_product_images
InAudit == op = "audit_product_images"
AuditReturned == InAudit /\ pc = "returned"
AuditReported == AuditReturned /\ ret.kind = "audit_report"

\* images the loop has finished with
AuditSeen ==
  IF InAudit /\ pc = "audit_loop" THEN i - 1
  ELSE IF AuditReported THEN Len(AuditImages(product))
  ELSE 0

TrimmedAlt(im) == Strip(IF im.alt.t = "absent" THEN <<>> ELSE im.alt.s)
TrimmedName(im) == Strip(IF im.name.t = "absent" THEN <<>> ELSE im.name.s)

AltIssueKinds == {"missing_alt", "alt_too_short", "alt_is_name"}

\* the outcome the priority order of the four alt-text checks gives
ExpectedAltOutcome(name, im) ==
  IF TrimmedAlt(im) = <<>> THEN "missing_alt"
  ELSE IF Len(TrimmedAlt(im)) < 10 THEN "alt_too_short"
  ELSE IF Lower(TrimmedAlt(im)) = Lower(name) THEN "alt_is_name"
  ELSE "good_alt"

HasGenericName(im) ==
  \/ TrimmedName(im) = <<>>
  \/ Lower(TrimmedName(im)) \in { <<"i","m","a","g","e">>,
    <<"i","m","g">>, <<"p","h","o","t","o">>,
    <<"p","i","c","t","u","r","e">> }

SuggestionFor(kind) ==
  CASE kind = "missing_alt" -> "add_alt"
    [] kind = "alt_too_short" -> "expand_alt"
    [] kind = "alt_is_name" -> "describe_alt"
    [] kind = "generic_name" -> "use_filename"
    [] OTHER -> "none"

AltIssuesOf(k) ==
  {c \in 1..Len(issues) :
     issues[c].image = k /\ issues[c].kind \in AltIssueKinds}
NameIssuesOf(k) ==
  {c \in 1..Len(issues) :
     issues[c].image = k /\ issues[c].kind = "generic_name"}
GoodOf(k) == {c \in 1..Len(good_practices) : good_practices[c].image = k}

SingleImageAudit ==
  /\ AuditReported
  /\ Len(AuditImages(product)) = 1

\* the statement of C8 as claimed: a single image whose alt text equals
\* the product name (ignoring case) and whose name is generic is reported
\* with 'alt text is just product name' and 'generic or missing name',
\* 2 issues, 0 good practices.
C8_AsClaimed ==
  ( /\ SingleImageAudit
    /\ TrimmedAlt(AuditImages(product)[1]) # <<>>
    /\ Lower(GetOrEmpty(AuditImages(product)[1].alt).s)
         = Lower(AuditProductName(product))
    /\ HasGenericName(AuditImages(product)[1]) )
  =>
    /\ ret.total_issues = 2 /\ ret.good_practices = 0
    /\ Len(ret.issues) = 2
    /\ ret.issues[1].kind = "alt_is_name" /\ ret.issues[1].image = 1
    /\ ret.issues[2].kind = "generic_name" /\ ret.issues[2].image = 1

\* C8 (amended): for a single image whose trimmed, non-empty alt text
\* equals the product name (ignoring case) and whose name is generic, the
\* audit reports 2 issues and 0 good practices; the second issue is
\* 'generic or missing name'; the first is 'alt text is just product
\* name' when the trimmed alt text has at least 10 characters and 'alt
\* text too short' when it has fewer (as for 'Red Mug', 7 characters).
C8_AltEqualsNameByLength ==
  ( /\ SingleImageAudit
    /\ TrimmedAlt(AuditImages(product)[1]) # <<>>
    /\ Lower(TrimmedAlt(AuditImages(product)[1]))
         = Lower(AuditProductName(product))
    /\ HasGenericName(AuditImages(product)[1]) )
  =>
    /\ ret.total_issues = 2 /\ ret.good_practices = 0
    /\ Len(ret.issues) = 2
    /\ ret.issues[1].image = 1
    /\ ret.issues[1].kind =
         IF Len(TrimmedAlt(AuditImages(product)[1])) >= 10
         THEN "alt_is_name" ELSE "alt_too_short"
    /\ ret.issues[2].kind = "generic_name" /\ ret.issues[2].image = 1

\* 'Red Mug Deluxe' with the image {alt: 'RED MUG DELUXE', name: 'img'}
C8_Witness ==
  /\ SingleImageAudit
  /\ AuditProductName(product) = <<"R","e","d"," ","M","u","g"," ","D","e","l","u","x","e">>
  /\ AuditImages(product)[1] = Image(Str(<<"R","E","D"," ","M","U","G"," ","D","E","L","U","X","E">>),
    Str(<<"i","m","g">>))
  /\ ret.issues[1].kind = "alt_is_name"
  /\ ret.issues[2].kind = "generic_name"

\* C9: for a non-empty image list, every image seen has exactly one of
\* the four alt-text outcomes, the one the priority order (missing, too
\* short, just the product name, good) gives, and a name issue exactly
\* when its name is empty or image/img/photo/picture in any case; so good
\* practices + alt issues = images, total issues = alt issues + name
\* issues, and the suggestions pair one to one with the issues, all in
\* image order.
C9_OneAltOutcomePerImage ==
  InAudit =>
    /\ \A k \in 1..AuditSeen :
         LET im == AuditImages(product)[k]
             want == ExpectedAltOutcome(AuditProductName(product), im)
         IN  /\ Cardinality(AltIssuesOf(k)) + Cardinality(GoodOf(k)) = 1
             /\ (want = "good_alt") <=> (GoodOf(k) # {})
             /\ \A c \in AltIssuesOf(k) : issues[c].kind = want
             /\ Cardinality(NameIssuesOf(k)) =
                  IF HasGenericName(im) THEN 1 ELSE 0
             /\ \A a \in AltIssuesOf(k), n \in NameIssuesOf(k) : a < n
    /\ AuditSeen > 0 =>
         /\ \A c \in 1..Len(issues) :
              /\ issues[c].image \in 1..AuditSeen
              /\ issues[c].kind \in AltIssueKinds \cup {"generic_name"}
         /\ \A c \in 1..Len(good_practices) :
              good_practices[c].image \in 1..AuditSeen
         /\ Len(good_practices)
              + Cardinality({c \in 1..Len(issues) :
                               issues[c].kind \in AltIssueKinds})
              = AuditSeen
         /\ Len(suggestions) = Len(issues)
         /\ \A c \in 1..Len(issues) :
              /\ suggestions[c].image = issues[c].image
              /\ suggestions[c].kind = SuggestionFor(issues[c].kind)
         /\ \A a, b \in 1..Len(issues) :
              a < b => issues[a].image <= issues[b].image
         /\ \A a, b \in 1..Len(good_practices) :
              a < b => good_practices[a].image < good_practices[b].image
    /\ AuditReported =>
         /\ ret.total_images = Len(AuditImages(product))
         /\ ret.total_issues =
              Cardinality({c \in 1..Len(issues) :
                             issues[c].kind \in AltIssueKinds})
              + Cardinality({c \in 1..Len(issues) :
                               issues[c].kind = "generic_name"})
         /\ ret.good_practices = Len(good_practices)
         /\ ret.issues = issues /\ ret.suggestions = suggestions

\* two images: the first with a short alt text and an empty name, the
\* second with good alt text and a descriptive name
C9_Witness ==
  /\ AuditReported
  /\ Len(AuditImages(product)) = 2
  /\ ret.total_issues = 2 /\ ret.good_practices = 1
  /\ issues[1].kind = "alt_too_short" /\ issues[1].image = 1
  /\ issues[2].kind = "generic_name" /\ issues[2].image = 1
  /\ good_practices[1].image = 2

\* C10: when the fetched product has an empty or absent image list the
\* audit returns at once: one critical issue ('no images found'), one
\* templated suggestion naming the product, no good practice, no pass of
\* the per-image loop and no summary counts.
C10_NoImagesIsTerminal ==
  (AuditReturned /\ ~product.empty /\ AuditImages(product) = <<>>) =>
    /\ ret.kind = "no_images"
    /\ ret.summary = FALSE
    /\ Len(ret.critical) = 1
    /\ Len(issues) = 1 /\ issues[1].kind = "no_images"
    /\ Len(suggestions) = 1
    /\ suggestions[1].kind = "add_images"
    /\ suggestions[1].text = AuditProductName(product)
    /\ Cardinality({c \in 1..Len(ret.suggestions) :
                      ret.suggestions[c].kind = "add_images"}) = 1
    /\ ret.suggestions[1] = suggestions[1]
    /\ good_practices = <<>>
    /\ i = 0

\* 'Red Mug' fetched with an empty image list
C10_Witness ==
  /\ AuditReturned
  /\ ret.kind = "no_images"
  /\ product.name = Str(<<"R","e","d"," ","M","u","g">>)
  /\ product.images.present /\ product.images.items = <<>>

\* ---------------------------------------------------------- store_stats
StatsReported ==
  op = "store_stats" /\ pc = "returned" /\ ret.kind = "store_stats"

\* the three predicates behind the three counts of the report
StatsMissingDescription(p) == MissingText(p.description)
StatsMissingShortDescription(p) == MissingText(p.short_description)
StatsMissingSeo(p) == MissingSeo(p).missing

\* C6: 'Products Needing Work' is the number of products that match at
\* least one of the three predicates counted beside it (missing
\* description, missing short description, missing SEO by first match), so
\* it is at least each of the three counts and at most the total.
C6_NeedingWorkIsUnionOfCounts ==
  StatsReported =>
    /\ ret.needing_work =
         Cardinality({k \in 1..Len(products) :
            \/ StatsMissingDescription(products[k])
            \/ StatsMissingShortDescription(products[k])
            \/ StatsMissingSeo(products[k])})
    /\ ret.needing_work >= ret.missing_descriptions
    /\ ret.needing_work >= ret.missing_short_descriptions
    /\ ret.needing_work >= ret.missing_seo
    /\ ret.needing_work <= ret.total_products

Abs(x) == IF x < 0 THEN 0 - x ELSE x

\* C7: the score (in tenths of a percent) is 100.0 for an empty store and
\* otherwise (total - needing) / total * 100 to the nearest tenth; it lies
\* between 0 and 100; 'All products are well-optimized' is among the
\* priority actions exactly when no product needs work.
C7_OptimizationScore ==
  StatsReported =>
    /\ ret.total_products = 0 => ret.score = 1000
    /\ ret.total_products > 0 =>
         2 * Abs(ret.score * ret.total_products
                 - (ret.total_products - ret.needing_work) * 1000)
           <= ret.total_products
    /\ ret.score >= 0 /\ ret.score <= 1000
    /\ (\E c \in 1..Len(ret.priority_actions) :
          ret.priority_actions[c] = "all_optimized")
       <=> ret.needing_work = 0

\* three products of which one needs work: 66.7
C7_Witness ==
  /\ StatsReported
  /\ ret.total_products = 3
  /\ ret.needing_work = 1
  /\ ret.score = 667


\* -------------------------------------------------------- missing content
\* the batch with every absent description or short description replaced
\* by the empty text
EmptyForAbsent(q) ==
  [q EXCEPT !.description = GetOrEmpty(@),
            !.short_description = GetOrEmpty(@)]

WithEmptyForAbsent(ps) == [k \in 1..Len(ps) |-> EmptyForAbsent(ps[k])]

\* what an operation hands back for the outcome r of its text
ResultOf(o, r) == IF r.ok THEN r.text ELSE OuterExcept(o, r.err).ret

\* the operation ended after its fetches succeeded
FetchedAndReturned(o) ==
  /\ op = o
  /\ pc = "returned"
  /\ woo_client # "None"
  /\ ~(ret.kind = "error" /\ ret.msg = "RemoteApiError")

CountOf(ps, Test(_)) == Cardinality({k \in 1..Len(ps) : Test(ps[k])})

\* C11: get_products, analyze_products, store_stats and analyze_store give
\* for a batch with absent description / short description fields the
\* result they give for the same batch with those fields empty, and that
\* result reports the product as missing the content.
C11_AbsentSameAsEmpty ==
  /\ FetchedAndReturned("get_products") =>
       /\ ret = ResultOf("get_products",
                         GetProductsText(WithEmptyForAbsent(products)))
       /\ \A k \in 1..Len(products) :
            products[k].description.t = "absent" =>
              /\ ret.kind = "products"
              /\ \E c \in 1..Len(ret.items[k].missing_content) :
                   ret.items[k].missing_content[c] = "description"
  /\ FetchedAndReturned("analyze_products") =>
       ret = ResultOf("analyze_products",
                      AnalyzeProductsText(WithEmptyForAbsent(products)))
  /\ FetchedAndReturned("analyze_store") =>
       ret = ResultOf("analyze_store",
                      AnalyzeStoreText(WithEmptyForAbsent(products),
                                       categories, args.include_products))
  /\ (FetchedAndReturned("store_stats") /\ ret.kind = "store_stats") =>
       /\ ret.missing_descriptions =
            CountOf(WithEmptyForAbsent(products),
                    LAMBDA q : Strip(q.description.s) = <<>>)
       /\ ret.missing_short_descriptions =
            CountOf(WithEmptyForAbsent(products),
                    LAMBDA q : Strip(q.short_description.s) = <<>>)
       /\ ret.needing_work =
            NeedingOptimization(WithEmptyForAbsent(products))

\* the same statement for the three operations other than get_products
C11_ExceptGetProducts ==
  (op # "get_products") => C11_AbsentSameAsEmpty


\* ------------------------------------------------- multi-product analysis
AnalysisOperations == {"analyze_products", "store_stats", "analyze_store"}

\* classifying q raises: the first meta entry with one of the two SEO keys
\* has no 'value'
ClassifyingRaises(q) ==
  \E key \in {"_yoast_wpseo_title", "_yoast_wpseo_metadesc"} :
    \E j \in 1..Len(MetaItems(q)) :
      /\ MetaItems(q)[j].key = key
      /\ MetaItems(q)[j].value.t = "absent"
      /\ \A m \in 1..(j - 1) : MetaItems(q)[m].key # key

SomeClassifyingRaises ==
  \E k \in 1..Len(products) : ClassifyingRaises(products[k])

AnalysisReturned ==
  \E o \in AnalysisOperations : FetchedAndReturned(o)

\* the statement of C12 as claimed: an error raised while classifying one
\* product of the batch is confined to it, and the operation still
\* returns its analysis report.
C12_AsClaimed ==
  (AnalysisReturned /\ SomeClassifyingRaises) => ret.kind # "error"

\* C12 (amended): in analyze_products, store_stats and analyze_store an
\* error raised while classifying one product of the fetched batch ends
\* the operation: it returns its one error text with that failure and no
\* classification of any product; the report is returned exactly when no
\* product of the batch raises.
C12_ErrorEndsTheOperation ==
  AnalysisReturned =>
    /\ SomeClassifyingRaises <=> ret.kind = "error"
    /\ ret.kind = "error" =>
         /\ ret.op = op
         /\ ret.msg = "KeyError"
         /\ DOMAIN ret = {"kind", "op", "msg"}

\* analyze_products on three products of which only the second has a meta
\* entry without a value
C12_Witness ==
  /\ FetchedAndReturned("analyze_products")
  /\ Len(products) = 3
  /\ ~ClassifyingRaises(products[1])
  /\ ClassifyingRaises(products[2])
  /\ ~ClassifyingRaises(products[3])
  /\ ret.kind = "error"


\* ---------------------------------------------------------- analyze_store
StorePrompted ==
  FetchedAndReturned("analyze_store") /\ ret.kind = "store_prompt"

TrimmedDescription(q) ==
  Strip(IF q.description.t = "absent" THEN <<>> ELSE q.description.s)

IsLowQuality(q) ==
  TrimmedDescription(q) # <<>> /\ Len(TrimmedDescription(q)) < 100

IsMissingDescription(q) == TrimmedDescription(q) = <<>>

DistinctIds(ps) == \A a, b \in 1..Len(ps) : a # b => ps[a].id # ps[b].id

InList(id, ids) == \E c \in 1..Len(ids) : ids[c] = id

\* C13: in the prompt of analyze_store a product is among the low-quality
\* content iff its trimmed description is non-empty and shorter than 100
\* characters, and among the missing descriptions iff it is empty; no
\* product is in both, and one with 100 or more characters is in neither.
C13_LowQualityVersusMissing ==
  StorePrompted =>
    /\ Len(ret.low_quality_content) = CountOf(products, IsLowQuality)
    /\ Len(ret.missing_description) = CountOf(products, IsMissingDescription)
    /\ DistinctIds(products) =>
         \A k \in 1..Len(products) :
           LET q == products[k]
           IN  /\ InList(q.id, ret.low_quality_content) <=> IsLowQuality(q)
               /\ InList(q.id, ret.missing_description)
                    <=> IsMissingDescription(q)
               /\ ~(InList(q.id, ret.low_quality_content)
                    /\ InList(q.id, ret.missing_description))
               /\ Len(TrimmedDescription(q)) >= 100 =>
                    /\ ~InList(q.id, ret.low_quality_content)
                    /\ ~InList(q.id, ret.missing_description)

\* the example: a 50-character description with both SEO fields set is
\* low-quality content and nothing else
C13_Witness ==
  /\ StorePrompted
  /\ Len(products) = 1
  /\ products[1].description = Str(Repeat("x", 50))
  /\ ret.low_quality_content = <<products[1].id>>
  /\ ret.missing_description = <<>>
  /\ ret.missing_short_description = <<>>
  /\ ret.missing_seo = <<>>


\* ------------------------------------------------------------ configuration
\* config.json is there and lacks one of the required fields
LacksRequiredField == config.exists /\ RequiredKeys \ config.keys # {}

\* the server takes invocations: the dispatcher runs (idle) or an operation
\* is under way
Serving == pc # "start"

\* C14 as stated: a server whose configuration lacks a required field does
\* not reach the state in which it serves invocations.
C14_AsClaimed == LacksRequiredField => ~Serving

\* C14: the absence of a required field does not stop the start of the
\* server (main reads no configuration); it fails each invocation that
\* has to build the client: the invocation returns the error text of the
\* ValueError, the handle stays unset and the store is not called.
C14_MissingFieldFailsEachInvocation ==
  (LacksRequiredField /\ pc \notin {"start", "idle"}) =>
    /\ pc = "returned"
    /\ ret.kind = "error"
    /\ ret.msg = "ValueError"
    /\ ~fault
    /\ woo_client = "None"
    /\ built = "none"
    /\ calls = <<>>
    /\ products = <<>>
    /\ product = NoProduct

\* get_products on a started server whose config.json has no api_version
C14_Witness ==
  /\ config = [exists |-> TRUE, keys |-> RequiredKeys \ {"api_version"}]
  /\ op = "get_products"
  /\ pc = "returned"
  /\ ret.kind = "error"
  /\ ret.msg = "ValueError"
  /\ woo_client = "None"


\* ------------------------------------------------------- the shared client
\* a step that takes an invocation from the dispatcher
Invoked == pc = "idle" /\ pc' # "idle"

ConfigErrors == {"FileNotFoundError", "ValueError"}

\* C15: the client handle is constructed successfully at most once. Once
\* set it is never replaced or reset, no later invocation constructs a
\* client again and none fails on the configuration; an invocation that
\* finds the handle unset constructs it iff the configuration loads, and
\* otherwise returns the error text of the failure with the handle unset.
C15_ConstructedAtMostOnce ==
  [][ /\ woo_client # "None" => woo_client' = woo_client
      /\ built = "before" => built' = "before"
      /\ built = "now" => built' \in {"now", "before"}
      /\ built' # "none" <=> woo_client' # "None"
      /\ (Invoked /\ woo_client # "None") =>
            /\ built' = built
            /\ ~(pc' = "returned" /\ ret'.kind = "error"
                  /\ ret'.msg \in ConfigErrors)
      /\ (Invoked /\ woo_client = "None") =>
            IF LoadConfigError(config) = "none"
            THEN woo_client' = "WooClient" /\ built' = "now"
            ELSE /\ woo_client' = "None" /\ built' = "none"
                 /\ pc' = "returned"
                 /\ ret'.kind = "error"
                 /\ ret'.msg = LoadConfigError(config)
                 /\ ~fault'
    ]_vars

\* an invocation has returned that ran on the handle an earlier one built
C15_Witness ==
  /\ pc = "returned"
  /\ woo_client = "WooClient"
  /\ built = "before"


\* ------------------------------------------ update_product and the bulk update
\* a parameter left at its default None is a key the bulk request lacks
AsBulkField(v) == IF v.t = "none" THEN Absent ELSE v

\* the one-element bulk request with the same product id and fields
AsBulkRequest(a) ==
  Request(IntV(a.product_id), AsBulkField(a.description),
          AsBulkField(a.short_description), AsBulkField(a.meta_title),
          AsBulkField(a.meta_description))

UpdateProductDecided ==
  op = "update_product" /\ pc = "returned" /\ woo_client # "None"

\* update_product has decided as the body of the bulk loop decides on the
\* request u: the same call with the same payload, or no call and the
\* report of 'no update data'
DecidesAsBulk(u) ==
  \A resp \in UpdateResponses :
    LET b == BulkBody(u, 1, resp)
    IN  /\ calls = <<>> <=> b.calls = <<>>
        /\ calls # <<>> =>
              /\ calls[1].product_id = b.calls[1].product_id
              /\ calls[1].data = b.calls[1].data
        /\ ret.kind = "no_update_data"
              <=> (b.errors # <<>> /\ b.errors[1].kind = "no_update_data")

\* C16: update_product and bulk_update_products on the one-element list
\* with the same product id and the same supplied fields make the same
\* decision: both call the update collaborator with the same payload, or
\* both report 'no update data' without calling it.
C16_SameDecisionAsBulk ==
  UpdateProductDecided => DecidesAsBulk(AsBulkRequest(args))

SuppliesEmptyString ==
  \E f \in {"description", "short_description", "meta_title",
             "meta_description"} : args[f] = Str(<<>>)

\* the two agree whenever no supplied field is the empty string
C16_ExceptEmptyStrings ==
  (UpdateProductDecided /\ ~SuppliesEmptyString) =>
    DecidesAsBulk(AsBulkRequest(args))

====
